---- MODULE Spec2Model ----
(***************************************************************************)
(* Model of the streaming pipeline of super_metroid_infinite.py: the       *)
(* PatternMixer section/pattern state, the background producer thread      *)
(* (InfiniteGenerator._generate_audio_loop), the bounded audio_queue and   *)
(* the foreground consumer (InfiniteGenerator.run) with its recording      *)
(* accumulator.                                                            *)
(***************************************************************************)
EXTENDS Integers, Sequences, FiniteSets, TLC

\* ---------------------------------------------------------------- bounds
\* The producer stops starting new iterations once bar_counter reaches MaxBars.
MaxBars == 18
\* The same limit for the runs that exercise the consumer's input events.
MaxPipelineBars == 9
\* Chunks written to the audio device per bar (len(raw_data) / chunk_size).
ChunksPerBar == 2
\* Number of pygame input events delivered during one run.
MaxEvents == 1
\* Number of no-argument change_section results kept in section_history.
MaxHistory == 6
\* The producer's limit in the runs that attribute every write to its thread.
MaxOwnershipBars == 4
\* The largest tempo a PatternMixer is built with.
MaxBPM == 129
\* The largest bar_num passed to generate_bar when the bass line is followed.
MaxBarNum == 17
\* The largest bar_num in the other runs of generate_bar.
MaxShortBarNum == 1
\* No-argument change_section calls in one run of the mixer.
MaxSectionCalls == 7
\* The same where one change of section is enough.
MaxShortCalls == 1
\* Notes in a parsed MIDI track.
MaxNotes == 6
\* The producer's limit in the runs that follow the whole PatternMixer.
MaxLoopBars == 17
\* The largest bar_num in the runs that set the section directly.
MaxDrumBarNum == 3

\* ------------------------------------------------------- program constants
\* queue.Queue(maxsize=8)
maxsize == 8
\* run(): while self.audio_queue.qsize() < 3 and running
initial_buffer == 3

\* random.randint(8, 12), random.randint(16, 32), random.randint(16, 24):
\* the two smallest values of each range.
PatternIntervals == {8, 9}
BassIntervals == {16, 17}
SectionIntervals == {16, 17}

\* self.patterns['bass'] of the analysed library (one pattern in this scenario).
BassPatterns == {"b1"}
\* random.choice([None, 'distortion', 'delay', 'filter'])
BassEffects == {"None", "distortion", "delay", "filter"}

\* pygame events the handlers of run() distinguish.
Events == {"QUIT", "ESCAPE", "SPACE_DOWN", "SPACE_UP", "CLICK"}

VARIABLES
    \* PatternMixer
    current_section, active_bass, bass_effect,
    \* locals of _generate_audio_loop and its position
    ppc, bar_counter, pattern_change_interval, bass_change_interval,
    section_change_interval, loop_bar,
    \* shared between the threads
    audio_queue, stop_generation,
    \* InfiniteGenerator fields and locals of run()
    cpc, running, space_was_pressed, is_recording, audio_buffer,
    self_bar_counter, audio_data, chunk, displayed_section,
    \* history of the run (observations, not program state)
    events_used, section_history, last_section_change, section_gap,
    last_bass_change, bass_gap, num_dequeued, full_seen, enq_after_stop,
    steps_after_stop, unsaved, exit_exports,
    \* a PatternMixer driven on its own: the instance (pm), the position in
    \* generate_bar (gpc), its argument and locals, the exception raised
    pm, gpc, bar_num, step, num_steps, bar, raised, section_calls,
    \* a MIDIPatternAnalyzer on its own: one parsed track and self.patterns
    apc, track, patterns,
    \* more history: the melodic re-rolls of the loop, the exported recordings
    last_pattern_change, pattern_gap, files, recorded

mixer == <<current_section, active_bass, bass_effect>>
producer == <<ppc, bar_counter, pattern_change_interval, bass_change_interval,
              section_change_interval, loop_bar>>
consumer == <<cpc, running, space_was_pressed, is_recording, audio_buffer,
              self_bar_counter, audio_data, chunk, displayed_section>>
\* section_history: the (from, to) pairs of the no-argument change_section
\* calls; last_section_change, last_bass_change: bar_counter at the latest
\* automatic section change and bass re-selection (-1: none yet);
\* section_gap, bass_gap: bars enqueued between the latest two of them.
changes == <<section_history, last_section_change, section_gap,
             last_bass_change, bass_gap>>
history == <<events_used, changes, num_dequeued, full_seen, enq_after_stop,
             steps_after_stop, unsaved, exit_exports>>
pipeline == <<mixer, producer, audio_queue, stop_generation, consumer, history>>
sequencer == <<pm, gpc, bar_num, step, num_steps, bar, raised, section_calls>>
analyzer == <<apc, track, patterns>>
\* last_pattern_change: bar_counter at the latest re-selection of the melodic
\* patterns in the loop (-1: none yet); pattern_gap: bars between the latest
\* two of them.
rerolls == <<last_pattern_change, pattern_gap>>
\* files: the accumulators exported so far, each the bar numbers it held;
\* recorded: the bar numbers dequeued while is_recording was set.
exports == <<files, recorded>>
observed == <<rerolls, exports>>
vars == <<pipeline, sequencer, analyzer, observed>>

\* No AudioSegment yet.
NoAudio == [bar_num |-> -1, complete |-> FALSE, normalized |-> 0]

NoBar == [bar |-> NoAudio, bar_num |-> -1, section |-> "none"]

\* ------------------------------------------------------------ PatternMixer
sections == <<"verse", "chorus", "verse", "chorus", "breakdown", "chorus">>

\* list.index: position (0-based) of the first occurrence of s.
index(s) == (CHOOSE i \in 1..Len(sections) :
                /\ sections[i] = s
                /\ \A j \in 1..(i - 1) : sections[j] # s) - 1

InSections(s) == \E i \in 1..Len(sections) : sections[i] = s

\* A cycle that goes back to the entry state.
change_section_wraps(cur) == IF cur = "verse" THEN "intro" ELSE "verse"

\* change_section() with no argument.
change_section(cur) ==
    LET section_idx == IF InSections(cur) THEN index(cur) ELSE 0
    IN sections[((section_idx + 1) % Len(sections)) + 1]

\* ------------------------------------------------------------------ queue
\* A full test that lets one bar too many in.
QueueFull_one_more == Len(audio_queue) > maxsize

QueueFull == Len(audio_queue) >= maxsize

\* ------------------------------------------------ a PatternMixer on its own
Min(a, b) == IF a < b THEN a ELSE b
Max(a, b) == IF a > b THEN a ELSE b

\* self.active_* = None
None == [source |-> "None", notes |-> <<>>]

\* if self.active_bass: (a pattern dict is truthy, None is not)
IsSet(pattern) == pattern.source # "None"

\* Patterns as categorize_pattern stores them: 'source' and 'notes' (at least
\* one note each; bass patterns average below 45, the pad spans less than 12).
bass_a == [source |-> "bass_a", notes |-> <<36, 38, 41, 43>>]
bass_b == [source |-> "bass_b", notes |-> <<40>>]
bass_c == [source |-> "bass_c", notes |-> <<33, 36, 40>>]
bass_d == [source |-> "bass_d", notes |-> <<31, 33, 36, 38, 43>>]
melody_a == [source |-> "melody_a", notes |-> <<60, 64, 67>>]
pad_a == [source |-> "pad_a", notes |-> <<48, 50, 52, 55, 59>>]
arp_a == [source |-> "arp_a", notes |-> <<72, 76, 79>>]

\* analyzer.patterns with one pattern in every category the mixer reads.
FullLibrary == [bass |-> {bass_a}, melody |-> {melody_a}, pads |-> {pad_a},
                arpeggios |-> {arp_a}]

\* The libraries in which any subset of the categories is empty.
Libraries ==
    {[c \in DOMAIN FullLibrary |-> IF c \in S THEN FullLibrary[c] ELSE {}] :
        S \in SUBSET DOMAIN FullLibrary}

\* A library with bass patterns of 1, 3, 4 and 5 notes.
BassLibrary == [FullLibrary EXCEPT !.bass = {bass_a, bass_b, bass_c, bass_d}]

\* InfiniteGenerator(bpm=128)
default_bpm == 128

\* The tempos tried: default_bpm - 2 .. MaxBPM.
BPMs == (default_bpm - 2)..MaxBPM

\* random.choice([None, 'reverb', 'delay'])
MelodyEffects == {"None", "reverb", "delay"}

\* PatternMixer.__init__
PatternMixer(library, bpm) ==
    [patterns |-> library, bpm |-> bpm,
     active_bass |-> None, active_melody |-> None, active_pad |-> None,
     active_arp |-> None, active_lead |-> None,
     bass_effect |-> "None", melody_effect |-> "None",
     current_section |-> "intro"]

\* The outcomes of random.choice over the options when the test holds, the
\* old value when the code skips the choice.
choice(test, options, old) == IF test THEN options ELSE {old}

\* A re-roll with no availability test in front of any random.choice: a
\* choice from an empty list raises IndexError.
randomize_patterns_unguarded(m, change_bass) ==
    IF \/ change_bass /\ m.patterns.bass = {}
       \/ m.patterns.melody = {}
       \/ m.patterns.pads = {}
       \/ m.patterns.arpeggios = {}
    THEN {[pm |-> m, raised |-> "IndexError"]}
    ELSE {[pm |-> [m EXCEPT !.active_bass = b, !.bass_effect = be,
                            !.active_melody = me, !.active_lead = le,
                            !.active_pad = pa, !.active_arp = ar,
                            !.melody_effect = mfx],
           raised |-> "none"] :
             b \in choice(change_bass, m.patterns.bass, m.active_bass),
             be \in choice(change_bass, BassEffects, m.bass_effect),
             me \in m.patterns.melody, le \in m.patterns.melody,
             pa \in m.patterns.pads, ar \in m.patterns.arpeggios,
             mfx \in MelodyEffects}

\* randomize_patterns(change_bass): every outcome of its random choices.
randomize_patterns(m, change_bass) ==
    {[pm |-> [m EXCEPT !.active_bass = b, !.bass_effect = be,
                       !.active_melody = me, !.active_lead = le,
                       !.active_pad = pa, !.active_arp = ar,
                       !.melody_effect = mfx],
      raised |-> "none"] :
        b \in choice(change_bass /\ m.patterns.bass # {},
                     m.patterns.bass, m.active_bass),
        be \in choice(change_bass /\ m.patterns.bass # {},
                      BassEffects, m.bass_effect),
        me \in choice(m.patterns.melody # {}, m.patterns.melody,
                      m.active_melody),
        le \in choice(m.patterns.melody # {}, m.patterns.melody,
                      m.active_lead),
        pa \in choice(m.patterns.pads # {}, m.patterns.pads, m.active_pad),
        ar \in choice(m.patterns.arpeggios # {}, m.patterns.arpeggios,
                      m.active_arp),
        mfx \in MelodyEffects}

\* ---------------------------------------------------------------- timing
\* int(self.bar_duration), bar_duration = 60000 / bpm * 4
int_bar_duration == 240000 \div pm.bpm

\* int(beat * self.beat_duration)
kick_pos(beat) == (beat * 60000) \div pm.bpm
snare_pos(snare_beat) == (snare_beat * 60000) \div pm.bpm
bass_pos(beat) == (beat * 60000) \div pm.bpm

\* Hi-hats placed a whole beat apart.
hihat_pos_per_beat(sixteenth) == (sixteenth * 60000) \div pm.bpm

\* int(sixteenth * self.beat_duration / 4)
hihat_pos(sixteenth) == (sixteenth * 60000) \div (4 * pm.bpm)
arp_pos(sixteenth) == (sixteenth * 60000) \div (4 * pm.bpm)

\* int(step * step_duration), step_duration = self.bar_duration / num_steps
lead_pos(s) == (s * 240000) \div (8 * pm.bpm)
melody_pos(s) == (s * 240000) \div (num_steps * pm.bpm)

\* An offset that moves with every bar.
variation_offset_per_bar(b) == b % 4

\* variation_offset = (bar_num // 4) % 4
variation_offset(b) == (b \div 4) % 4

\* ---------------------------------------------------------------- voices
\* len() of the AudioSegment generate_waveform makes for a duration of
\* n / (d * pm.bpm) ms: int(sample_rate * duration_ms / 1000) frames at
\* 44100 Hz, and len() rounds the frames back to milliseconds.
generate_waveform(n, d) ==
    LET frames == (441 * n) \div (10 * d * pm.bpm)
    IN (20 * frames + 441) \div 882

\* A rendered clip: the voice that made it, its length in ms, the ramps
\* asked of fade_in / fade_out, and the effect applied to it afterwards.
AudioSegment(synth, duration, fade_in, fade_out) ==
    [synth |-> synth, duration |-> duration, fade_in |-> fade_in,
     fade_out |-> fade_out, effect |-> "None", delay_ms |-> 0]

\* bass.fade_in(10).fade_out(80)
deep_bass(n, d) == AudioSegment("deep_bass", generate_waveform(n, d), 10, 80)

\* pad.fade_in(300).fade_out(500)
creepy_pad(n, d) == AudioSegment("creepy_pad", generate_waveform(n, d), 300, 500)

\* attack = 50, release = 150; lead.fade_in(attack).fade_out(release)
brass_lead(n, d) == AudioSegment("brass_lead", generate_waveform(n, d), 50, 150)

\* decay_time = min(int(duration_ms * 0.6), 200); fade_in(1).fade_out(decay_time)
xylophone(n, d) ==
    AudioSegment("xylophone", generate_waveform(n, d), 1,
                 Min((6 * n) \div (10 * d * pm.bpm), 200))

\* acid.fade_in(2).fade_out(60)
acid_bass(n, d) == AudioSegment("acid_bass", generate_waveform(n, d), 2, 60)

\* DrumMachine: kick(duration_ms=350), snare(duration_ms=180),
\* hihat(duration_ms=50); their envelopes are computed, not faded.
kick == AudioSegment("kick", 350, 0, 0)
snare == AudioSegment("snare", 180, 0, 0)
hihat == AudioSegment("hihat", 50, 0, 0)

\* AudioEffects.distortion / delay / filter_lowpass / reverb: the clip keeps
\* its length; delay overlays a copy of the clip on it at delay_ms.
AudioEffects(clip, effect, delay_ms) ==
    [clip EXCEPT !.effect = effect,
                 !.delay_ms = IF effect = "delay" THEN delay_ms ELSE 0]

\* ------------------------------------------------------------ generate_bar
\* No overlay yet.
NoLayer == [voice |-> "none", clip |-> AudioSegment("none", 0, 0, 0),
            position |-> 0, length |-> 0, step |-> -1, note_idx |-> -1,
            note |-> -1]

\* No bar under construction.
NoMix == [length |-> 0, section |-> "none", last |-> NoLayer, drums |-> {}]

\* AudioSegment.silent(duration=ms), generated under the current section.
silent(ms) == [length |-> ms, section |-> pm.current_section, last |-> NoLayer,
               drums |-> {}]

\* b.overlay(clip, position=position): the result is as long as b, the part
\* of the clip that lies past the end of b is cut off. The layer is kept in
\* b.last with the loop index, note index and note it was made from; the
\* kicks and snares of the bar are kept in b.drums with their positions.
overlay(b, clip, voice, position, k, idx, note) ==
    [b EXCEPT !.last =
        [voice |-> voice, clip |-> clip, position |-> position,
         length |-> Max(0, Min(clip.duration, b.length - position)),
         step |-> k, note_idx |-> idx, note |-> note],
              !.drums = IF voice \in {"kick", "snare"}
                        THEN @ \cup {[voice |-> voice, position |-> position]}
                        ELSE @]

\* A pass of a loop that placed nothing: the bar is as it was, and there is
\* no layer of this pass to look at.
skipped(b) == [b EXCEPT !.last = NoLayer]

is_chorus == pm.current_section = "chorus"
is_breakdown == pm.current_section = "breakdown"

\* The sequencer and the analyzer as the pipeline runs leave them.
SequencerIdle ==
    /\ pm = PatternMixer(FullLibrary, default_bpm)
    /\ gpc = "new"
    /\ bar_num = -1
    /\ step = 0
    /\ num_steps = 0
    /\ bar = NoMix
    /\ raised = "none"
    /\ section_calls = 0

\* MIDIPatternAnalyzer.__init__: self.patterns
EmptyPatterns == [bass |-> <<>>, melody |-> <<>>, pads |-> <<>>,
                  arpeggios |-> <<>>, percussion |-> <<>>]

AnalyzerIdle ==
    /\ apc = "idle"
    /\ track = <<>>
    /\ patterns = EmptyPatterns


PipelineInit ==
    /\ current_section = "intro"
    /\ active_bass \in BassPatterns
    /\ bass_effect \in BassEffects
    /\ ppc = "check"
    /\ bar_counter = 0
    /\ pattern_change_interval \in PatternIntervals
    /\ bass_change_interval \in BassIntervals
    /\ section_change_interval \in SectionIntervals
    /\ loop_bar = NoAudio
    /\ audio_queue = <<>>
    /\ stop_generation = FALSE
    /\ cpc = "buffering"
    /\ running = TRUE
    /\ space_was_pressed = FALSE
    /\ is_recording = TRUE
    /\ audio_buffer = <<>>
    /\ self_bar_counter = 0
    /\ audio_data = NoBar
    /\ chunk = 0
    /\ displayed_section = "none"
    /\ events_used = 0
    /\ section_history = <<>>
    /\ last_section_change = -1
    /\ section_gap = -1
    /\ last_bass_change = -1
    /\ bass_gap = -1
    /\ num_dequeued = 0
    /\ full_seen = FALSE
    /\ enq_after_stop = 0
    /\ steps_after_stop = 0
    /\ unsaved = 0
    /\ exit_exports = 0
    /\ last_pattern_change = -1
    /\ pattern_gap = -1
    /\ files = <<>>
    /\ recorded = {}

Init == PipelineInit /\ SequencerIdle /\ AnalyzerIdle

\* --------------------------------------------------------------- producer
\* Every producer step taken once stop_generation is set is counted.
AfterStop ==
    steps_after_stop' = IF stop_generation THEN steps_after_stop + 1
                        ELSE steps_after_stop

\* A loop test that never looks at stop_generation.
PCheck_ignores_stop(limit) ==
    /\ ppc = "check"
    /\ bar_counter < limit
    /\ ppc' = "body"
    /\ AfterStop
    /\ UNCHANGED <<sequencer, analyzer, observed>>
    /\ UNCHANGED <<loop_bar, mixer, bar_counter, pattern_change_interval,
                   bass_change_interval, section_change_interval, audio_queue,
                   stop_generation, consumer, events_used, changes,
                   num_dequeued, full_seen, enq_after_stop, unsaved,
                   exit_exports>>

\* while not self.stop_generation.is_set()
PCheck(limit) ==
    /\ ppc = "check"
    /\ IF stop_generation
       THEN ppc' = "done"
       ELSE bar_counter < limit /\ ppc' = "body"
    /\ AfterStop
    /\ UNCHANGED <<sequencer, analyzer, observed>>
    /\ UNCHANGED <<loop_bar, mixer, bar_counter, pattern_change_interval,
                   bass_change_interval, section_change_interval, audio_queue,
                   stop_generation, consumer, events_used, changes,
                   num_dequeued, full_seen, enq_after_stop, unsaved,
                   exit_exports>>

\* The section, bass and pattern changes of one iteration of the loop.
Changes ==
    LET sec_change == bar_counter > 0 /\ bar_counter % section_change_interval = 0
        change_bass == bar_counter % bass_change_interval = 0
        pat_change == bar_counter % pattern_change_interval = 0 /\ bar_counter > 0
        \* randomize_patterns runs with change_bass=True in either branch
        reselect == change_bass /\ BassPatterns # {}
    IN  /\ IF sec_change
           THEN /\ current_section' = change_section(current_section)
                /\ section_change_interval' \in SectionIntervals
                /\ last_section_change' = bar_counter
                /\ section_gap' = IF last_section_change < 0 THEN section_gap
                                  ELSE bar_counter - last_section_change
                /\ section_history' =
                       IF Len(section_history) < MaxHistory
                       THEN Append(section_history,
                                   [from |-> current_section,
                                    to |-> change_section(current_section)])
                       ELSE section_history
           ELSE UNCHANGED <<current_section, section_change_interval,
                            last_section_change, section_gap, section_history>>
        /\ IF change_bass /\ bar_counter > 0
           THEN bass_change_interval' \in BassIntervals
           ELSE UNCHANGED bass_change_interval
        /\ IF pat_change
           THEN pattern_change_interval' \in PatternIntervals
           ELSE UNCHANGED pattern_change_interval
        /\ IF reselect
           THEN /\ active_bass' \in BassPatterns
                /\ bass_effect' \in BassEffects
                /\ last_bass_change' = bar_counter
                /\ bass_gap' = IF last_bass_change < 0 THEN bass_gap
                               ELSE bar_counter - last_bass_change
           ELSE UNCHANGED <<active_bass, bass_effect, last_bass_change,
                            bass_gap>>

\* What self.mixer.generate_bar(n) returns: the bar with every layer placed;
\* generate_bar itself does not normalize.
generated_bar(n) == [bar_num |-> n, complete |-> TRUE, normalized |-> 0]

\* A mastering step that hands the bar on as it is.
normalize_skipped(b) == b

\* bar.normalize(headroom=1.5)
normalize(b) == [b EXCEPT !.normalized = @ + 1]

\* One pass through the try body up to the put: changes, generate_bar, normalize.
PGenerate ==
    /\ ppc = "body"
    /\ Changes
    /\ loop_bar' = normalize(generated_bar(bar_counter))
    /\ ppc' = "put"
    /\ AfterStop
    /\ UNCHANGED <<sequencer, analyzer, observed>>
    /\ UNCHANGED <<bar_counter, audio_queue, stop_generation, consumer,
                   events_used, num_dequeued, full_seen, enq_after_stop,
                   unsaved, exit_exports>>

\* generate_bar raises: except Exception, sleep, next iteration.
PGenerateError ==
    /\ ppc = "body"
    /\ Changes
    /\ ppc' = "check"
    /\ AfterStop
    /\ UNCHANGED <<sequencer, analyzer, observed>>
    /\ UNCHANGED <<loop_bar, bar_counter, audio_queue, stop_generation, consumer,
                   events_used, num_dequeued, full_seen, enq_after_stop,
                   unsaved, exit_exports>>

\* audio_queue.put(..., timeout=1.0) finds room; bar_counter += 1.
PPut ==
    /\ ppc = "put"
    /\ ~QueueFull
    /\ audio_queue' = Append(audio_queue,
                             [bar |-> loop_bar, bar_num |-> bar_counter,
                              section |-> current_section])
    /\ bar_counter' = bar_counter + 1
    /\ enq_after_stop' = IF stop_generation THEN enq_after_stop + 1
                         ELSE enq_after_stop
    /\ ppc' = "check"
    /\ AfterStop
    /\ UNCHANGED <<sequencer, analyzer, observed>>
    /\ UNCHANGED <<loop_bar, mixer, pattern_change_interval, bass_change_interval,
                   section_change_interval, stop_generation, consumer,
                   events_used, changes, num_dequeued, full_seen, unsaved,
                   exit_exports>>

\* A queue.Full handler that moves on to the next bar.
PQueueFull_drops_bar ==
    /\ ppc = "put"
    /\ QueueFull
    /\ ppc' = "check"
    /\ bar_counter' = bar_counter + 1
    /\ full_seen' = TRUE
    /\ AfterStop
    /\ UNCHANGED <<sequencer, analyzer, observed>>
    /\ UNCHANGED <<loop_bar, mixer, pattern_change_interval, bass_change_interval,
                   section_change_interval, audio_queue, stop_generation,
                   consumer, events_used, changes, num_dequeued,
                   enq_after_stop, unsaved, exit_exports>>

\* A queue.Full handler that leaves the loop.
PQueueFull_ends_thread ==
    /\ ppc = "put"
    /\ QueueFull
    /\ ppc' = "done"
    /\ full_seen' = TRUE
    /\ AfterStop
    /\ UNCHANGED <<sequencer, analyzer, observed>>
    /\ UNCHANGED <<loop_bar, mixer, bar_counter, pattern_change_interval,
                   bass_change_interval, section_change_interval, audio_queue,
                   stop_generation, consumer, events_used, changes,
                   num_dequeued, enq_after_stop, unsaved, exit_exports>>

\* The put times out: except queue.Full, sleep, next iteration.
PQueueFull ==
    /\ ppc = "put"
    /\ QueueFull
    /\ ppc' = "check"
    /\ full_seen' = TRUE
    /\ AfterStop
    /\ UNCHANGED <<sequencer, analyzer, observed>>
    /\ UNCHANGED <<loop_bar, mixer, bar_counter, pattern_change_interval,
                   bass_change_interval, section_change_interval, audio_queue,
                   stop_generation, consumer, events_used, changes,
                   num_dequeued, enq_after_stop, unsaved, exit_exports>>

ProducerNext(limit) ==
    PCheck(limit) \/ PGenerate \/ PGenerateError \/ PPut \/ PQueueFull

\* --------------------------------------------------------------- recording
\* The recording fields as one record: r.is_recording, r.audio_buffer, the
\* bars appended and not yet exported (r.unsaved), whether the call
\* exported (r.exported), and the files written so far (r.files).
Recording == [is_recording |-> is_recording, audio_buffer |-> audio_buffer,
              unsaved |-> unsaved, exported |-> 0, files |-> files]

start_recording(r) ==
    [r EXCEPT !.is_recording = TRUE, !.audio_buffer = <<>>, !.unsaved = 0]

stop_recording(r) ==
    IF r.is_recording /\ Len(r.audio_buffer) > 0
    THEN [r EXCEPT !.is_recording = FALSE, !.unsaved = 0, !.exported = 1,
                   !.files = Append(@, r.audio_buffer)]
    ELSE [r EXCEPT !.is_recording = FALSE]

toggle_recording(r) ==
    IF r.is_recording THEN stop_recording(r) ELSE start_recording(r)

\* self.mixer.current_section as read by draw_ui.
draw_ui == current_section

\* --------------------------------------------------------------- consumer
Deliver(ev) == ev = "none" \/ (ev \in Events /\ events_used < MaxEvents)
Used(ev) == IF ev = "none" THEN events_used ELSE events_used + 1

\* One pass of the initial buffering loop: only QUIT is looked at.
CBuffering(ev) ==
    /\ cpc = "buffering"
    /\ Len(audio_queue) < initial_buffer /\ running
    /\ ev \in Events /\ Deliver(ev)
    /\ running' = (ev # "QUIT")
    /\ events_used' = Used(ev)
    /\ UNCHANGED <<sequencer, analyzer, observed>>
    /\ UNCHANGED <<mixer, producer, audio_queue, stop_generation, cpc,
                   space_was_pressed, is_recording, audio_buffer,
                   self_bar_counter, audio_data, chunk, displayed_section,
                   changes, num_dequeued, full_seen, enq_after_stop,
                   steps_after_stop, unsaved, exit_exports>>

\* A buffering wait that is left as soon as one bar is queued.
CBufferingDone_first_bar ==
    /\ cpc = "buffering"
    /\ ~(Len(audio_queue) < 1 /\ running)
    /\ cpc' = IF running THEN "get" ELSE "cleanup"
    /\ UNCHANGED <<sequencer, analyzer, observed>>
    /\ UNCHANGED <<mixer, producer, audio_queue, stop_generation, running,
                   space_was_pressed, is_recording, audio_buffer,
                   self_bar_counter, audio_data, chunk, displayed_section,
                   history>>

\* The buffering loop ends: three bars are queued, or running is false.
CBufferingDone ==
    /\ cpc = "buffering"
    /\ ~(Len(audio_queue) < initial_buffer /\ running)
    /\ cpc' = IF running THEN "get" ELSE "cleanup"
    /\ UNCHANGED <<sequencer, analyzer, observed>>
    /\ UNCHANGED <<mixer, producer, audio_queue, stop_generation, running,
                   space_was_pressed, is_recording, audio_buffer,
                   self_bar_counter, audio_data, chunk, displayed_section,
                   history>>

\* audio_queue.get(timeout=0.5) returns a bar.
CGet ==
    /\ cpc = "get"
    /\ audio_queue # <<>>
    /\ audio_data' = Head(audio_queue)
    /\ audio_queue' = Tail(audio_queue)
    /\ self_bar_counter' = Head(audio_queue).bar_num
    /\ IF is_recording
       THEN /\ audio_buffer' = Append(audio_buffer, Head(audio_queue).bar_num)
            /\ unsaved' = unsaved + 1
            /\ recorded' = recorded \cup {Head(audio_queue).bar_num}
       ELSE UNCHANGED <<audio_buffer, unsaved, recorded>>
    /\ chunk' = 0
    /\ cpc' = "play"
    /\ num_dequeued' = num_dequeued + 1
    /\ UNCHANGED <<sequencer, analyzer, rerolls, files>>
    /\ UNCHANGED <<mixer, producer, stop_generation, running,
                   space_was_pressed, is_recording, displayed_section,
                   events_used, changes, full_seen, enq_after_stop,
                   steps_after_stop, exit_exports>>

\* A time-out handler that re-rolls the bass effect from the main thread.
CEmpty_rerolls_bass(ev) ==
    /\ cpc = "get"
    /\ audio_queue = <<>>
    /\ Deliver(ev)
    /\ running' = (ev # "QUIT")
    /\ events_used' = Used(ev)
    /\ displayed_section' = draw_ui
    /\ bass_effect' \in BassEffects
    /\ cpc' = IF ev # "QUIT" THEN "get" ELSE "cleanup"
    /\ UNCHANGED <<sequencer, analyzer, observed>>
    /\ UNCHANGED <<current_section, active_bass, producer, audio_queue,
                   stop_generation, space_was_pressed, is_recording,
                   audio_buffer, self_bar_counter, audio_data, chunk, changes,
                   num_dequeued, full_seen, enq_after_stop, steps_after_stop,
                   unsaved, exit_exports>>

\* The get times out (queue.Empty): only QUIT is looked at, the UI is redrawn.
CEmpty(ev) ==
    /\ cpc = "get"
    /\ audio_queue = <<>>
    /\ Deliver(ev)
    /\ running' = (ev # "QUIT")
    /\ events_used' = Used(ev)
    /\ displayed_section' = draw_ui
    /\ cpc' = IF ev # "QUIT" THEN "get" ELSE "cleanup"
    /\ UNCHANGED <<sequencer, analyzer, observed>>
    /\ UNCHANGED <<mixer, producer, audio_queue, stop_generation,
                   space_was_pressed, is_recording, audio_buffer,
                   self_bar_counter, audio_data, chunk, changes,
                   num_dequeued, full_seen, enq_after_stop, steps_after_stop,
                   unsaved, exit_exports>>

\* The key and mouse handlers of the chunk loop, QUIT and ESCAPE apart.
Handled(ev) ==
    LET toggles == \/ ev = "CLICK"
                   \/ (ev = "SPACE_DOWN" /\ ~space_was_pressed)
        r == IF toggles THEN toggle_recording(Recording) ELSE Recording
    IN  /\ is_recording' = r.is_recording
        /\ audio_buffer' = r.audio_buffer
        /\ unsaved' = r.unsaved
        /\ files' = r.files
        /\ space_was_pressed' = CASE ev = "SPACE_DOWN" -> TRUE
                                  [] ev = "SPACE_UP" -> FALSE
                                  [] OTHER -> space_was_pressed
        /\ events_used' = Used(ev)

\* QUIT or ESCAPE while a bar plays: running = False, both loops are left.
CQuit(ev) ==
    /\ cpc = "play"
    /\ ev \in {"QUIT", "ESCAPE"} /\ Deliver(ev)
    /\ running' = FALSE
    /\ events_used' = Used(ev)
    /\ cpc' = "cleanup"
    /\ UNCHANGED <<sequencer, analyzer, observed>>
    /\ UNCHANGED <<mixer, producer, audio_queue, stop_generation,
                   space_was_pressed, is_recording, audio_buffer,
                   self_bar_counter, audio_data, chunk, displayed_section,
                   changes, num_dequeued, full_seen, enq_after_stop,
                   steps_after_stop, unsaved, exit_exports>>

\* One chunk: events, audio_stream.write(chunk), redraw.
CPlayChunk(ev) ==
    /\ cpc = "play"
    /\ ev \notin {"QUIT", "ESCAPE"} /\ Deliver(ev)
    /\ Handled(ev)
    /\ displayed_section' = draw_ui
    /\ chunk' = chunk + 1
    /\ cpc' = IF chunk + 1 < ChunksPerBar THEN "play" ELSE "get"
    /\ UNCHANGED <<sequencer, analyzer, rerolls, recorded>>
    /\ UNCHANGED <<mixer, producer, audio_queue, stop_generation, running,
                   self_bar_counter, audio_data, changes, num_dequeued,
                   full_seen, enq_after_stop, steps_after_stop, exit_exports>>

\* audio_stream.write raises: nothing in run() catches it.
CWriteFails(ev) ==
    /\ cpc = "play"
    /\ ev \notin {"QUIT", "ESCAPE"} /\ Deliver(ev)
    /\ Handled(ev)
    /\ cpc' = "raised"
    /\ UNCHANGED <<sequencer, analyzer, rerolls, recorded>>
    /\ UNCHANGED <<mixer, producer, audio_queue, stop_generation, running,
                   self_bar_counter, audio_data, chunk, displayed_section,
                   changes, num_dequeued, full_seen, enq_after_stop,
                   steps_after_stop, exit_exports>>

\* Clean up: self.stop_generation.set()
CStop ==
    /\ cpc = "cleanup"
    /\ stop_generation' = TRUE
    /\ cpc' = "join"
    /\ UNCHANGED <<sequencer, analyzer, observed>>
    /\ UNCHANGED <<mixer, producer, audio_queue, running, space_was_pressed,
                   is_recording, audio_buffer, self_bar_counter, audio_data,
                   chunk, displayed_section, history>>

\* join(timeout=2.0) returns; if self.is_recording: self.stop_recording()
CJoinFlush ==
    /\ cpc = "join"
    /\ LET r == IF is_recording THEN stop_recording(Recording) ELSE Recording
       IN  /\ is_recording' = r.is_recording
           /\ audio_buffer' = r.audio_buffer
           /\ unsaved' = r.unsaved
           /\ files' = r.files
           /\ exit_exports' = exit_exports + r.exported
    /\ cpc' = "done"
    /\ UNCHANGED <<sequencer, analyzer, rerolls, recorded>>
    /\ UNCHANGED <<mixer, producer, audio_queue, stop_generation, running,
                   space_was_pressed, self_bar_counter, audio_data, chunk,
                   displayed_section, events_used, changes, num_dequeued,
                   full_seen, enq_after_stop, steps_after_stop>>

ConsumerNext ==
    \/ \E ev \in Events : CBuffering(ev)
    \/ CBufferingDone
    \/ CGet
    \/ \E ev \in Events \cup {"none"} : CEmpty(ev)
    \/ \E ev \in Events : CQuit(ev)
    \/ \E ev \in Events \cup {"none"} : CPlayChunk(ev)
    \/ \E ev \in Events \cup {"none"} : CWriteFails(ev)
    \/ CStop
    \/ CJoinFlush

\* The consumer without input events and without device failures.
ConsumerQuiet ==
    CBufferingDone \/ CGet \/ CEmpty("none") \/ CPlayChunk("none")

\* The consumer's way out: a quit request, then the clean-up.
ConsumerQuits ==
    \/ \E ev \in {"QUIT", "ESCAPE"} : CBuffering(ev) \/ CEmpty(ev) \/ CQuit(ev)
    \/ CStop
    \/ CJoinFlush

\* Producer, queue and a consumer that plays until it is asked to quit.
Next == ProducerNext(MaxPipelineBars) \/ ConsumerQuiet \/ ConsumerQuits

Spec == Init /\ [][Next]_vars

\* The producer over a longer run, the consumer only playing.
MixerNext == ProducerNext(MaxBars) \/ ConsumerQuiet

MixerSpec == Init /\ [][MixerNext]_vars

\* Producer, queue and the whole consumer: every input event, recording
\* toggles and failing writes to the audio device.
RecordingNext == ProducerNext(MaxPipelineBars) \/ ConsumerNext

RecordingSpec == Init /\ [][RecordingNext]_vars

\* The two threads with nothing failing and no input event, each of them
\* scheduled again and again: the generation thread sleeps at most 0.1 s or
\* waits at most 1 s in put and goes on, the main thread waits at most 0.5 s
\* in get and goes on.
ProducerRuns == PCheck(MaxPipelineBars) \/ PGenerate \/ PPut \/ PQueueFull

LiveNext == ProducerRuns \/ ConsumerQuiet

LiveSpec ==
    /\ Init
    /\ [][LiveNext]_vars
    /\ WF_vars(ProducerRuns)
    /\ WF_vars(ConsumerQuiet)

\* The same two threads over a run of fewer than maxsize bars, in which the
\* put always finds room. Which thread takes a step is read off the step
\* itself: every producer step moves ppc, no consumer step does.
OwnershipNext ==
    \/ PCheck(MaxOwnershipBars) \/ PGenerate \/ PGenerateError \/ PPut
    \/ ConsumerNext

OwnershipSpec == Init /\ [][OwnershipNext]_vars

\* ----------------------------------------- driving a PatternMixer directly
\* The mixer is built for a library and a tempo; initialize() re-rolls the
\* patterns once, then the loop calls change_section(), randomize_patterns
\* and generate_bar, which is followed overlay by overlay.
SequencerInit(libraries, bpms) ==
    /\ pm \in {PatternMixer(l, b) : l \in libraries, b \in bpms}
    /\ gpc = "new"
    /\ bar_num = -1
    /\ step = 0
    /\ num_steps = 0
    /\ bar = NoMix
    /\ raised = "none"
    /\ section_calls = 0
    /\ PipelineInit
    /\ bass_effect = "None"
    /\ pattern_change_interval = 8
    /\ bass_change_interval = 16
    /\ section_change_interval = 16
    /\ AnalyzerIdle

At(p) == gpc = p /\ raised = "none"

\* self.mixer.randomize_patterns(change_bass=...); the call of initialize()
\* is the first one and changes the bass.
SRandomize(change_bass) ==
    /\ (At("new") /\ change_bass) \/ At("idle")
    /\ \E o \in randomize_patterns(pm, change_bass) :
          /\ pm' = o.pm
          /\ raised' = o.raised
    /\ gpc' = "idle"
    /\ UNCHANGED <<bar_num, step, num_steps, bar, section_calls, pipeline,
                   analyzer, observed>>

\* self.mixer.change_section()
SChangeSection(maxCalls) ==
    /\ At("idle")
    /\ section_calls < maxCalls
    /\ pm' = [pm EXCEPT !.current_section = change_section(@)]
    /\ section_calls' = section_calls + 1
    /\ UNCHANGED <<gpc, bar_num, step, num_steps, bar, raised, pipeline,
                   analyzer, observed>>

\* change_section(new_section) ('intro', 'verse', 'chorus', 'breakdown').
SectionNames == {"intro", "verse", "chorus", "breakdown"}

\* self.mixer.change_section(new_section): the section asked for.
SChangeSectionTo(new_section) ==
    /\ At("idle")
    /\ pm' = [pm EXCEPT !.current_section = new_section]
    /\ UNCHANGED <<gpc, bar_num, step, num_steps, bar, raised, section_calls,
                   pipeline, analyzer, observed>>

\* generate_bar(b): the silent bar.
GStart(b) ==
    /\ At("idle")
    /\ bar' = silent(int_bar_duration)
    /\ bar_num' = b
    /\ gpc' = "if_drums"
    /\ UNCHANGED <<pm, step, num_steps, raised, section_calls, pipeline,
                   analyzer, observed>>

\* The loop index moves on; after the last of n passes the code goes to next.
Loop(n, next) ==
    IF step + 1 < n
    THEN step' = step + 1 /\ UNCHANGED gpc
    ELSE step' = 0 /\ gpc' = next

\* An if in front of a block: into it, or past it.
Branch(test, into, past) ==
    /\ gpc' = IF test THEN into ELSE past
    /\ step' = 0

\* The note at index i % len(notes) of the pattern is rendered and overlaid;
\* subscripting None raises TypeError, a modulus by len([]) raises
\* ZeroDivisionError.
Place(pattern, i, clip, voice, position) ==
    IF ~IsSet(pattern)
    THEN raised' = "TypeError" /\ UNCHANGED bar
    ELSE IF Len(pattern.notes) = 0
    THEN raised' = "ZeroDivisionError" /\ UNCHANGED bar
    ELSE /\ bar' = overlay(bar, clip, voice, position, step,
                           i % Len(pattern.notes),
                           pattern.notes[(i % Len(pattern.notes)) + 1])
         /\ UNCHANGED raised

\* A test that drops the drums of every breakdown bar.
GIfDrums_every_breakdown_bar ==
    /\ At("if_drums")
    /\ Branch(~is_breakdown, "kick", "if_bass")
    /\ UNCHANGED <<pm, bar_num, num_steps, bar, raised, section_calls,
                   pipeline, analyzer, observed>>

\* if not (is_breakdown and bar_num % 4 < 2)
GIfDrums ==
    /\ At("if_drums")
    /\ Branch(~(is_breakdown /\ bar_num % 4 < 2), "kick", "if_bass")
    /\ UNCHANGED <<pm, bar_num, num_steps, bar, raised, section_calls,
                   pipeline, analyzer, observed>>

\* for beat in range(4): kick
GKick ==
    /\ At("kick")
    /\ bar' = overlay(bar, kick, "kick", kick_pos(step), step, -1, -1)
    /\ Loop(4, "snare")
    /\ UNCHANGED <<pm, bar_num, num_steps, raised, section_calls, pipeline,
                   analyzer, observed>>

\* for snare_beat in [1, 3]
GSnare ==
    /\ At("snare")
    /\ bar' = overlay(bar, snare, "snare", snare_pos(<<1, 3>>[step + 1]),
                      step, -1, -1)
    /\ Loop(2, "hihat")
    /\ UNCHANGED <<pm, bar_num, num_steps, raised, section_calls, pipeline,
                   analyzer, observed>>

\* for sixteenth in range(16): if random.random() > 0.1
GHihat ==
    /\ At("hihat")
    /\ \E placed \in BOOLEAN :
          bar' = IF placed
                 THEN overlay(bar, hihat, "hihat", hihat_pos(step), step, -1, -1)
                 ELSE skipped(bar)
    /\ Loop(16, "if_bass")
    /\ UNCHANGED <<pm, bar_num, num_steps, raised, section_calls, pipeline,
                   analyzer, observed>>

\* if self.active_bass
GIfBass ==
    /\ At("if_bass")
    /\ Branch(IsSet(pm.active_bass), "bass", "if_lead")
    /\ UNCHANGED <<pm, bar_num, num_steps, bar, raised, section_calls,
                   pipeline, analyzer, observed>>

\* for beat in range(4): the bass note, its effect, bar.overlay(bass - 5)
GBass ==
    /\ At("bass")
    /\ Place(pm.active_bass,
             bar_num * 4 + step + variation_offset(bar_num),
             AudioEffects(deep_bass(60000 * 9, 10), pm.bass_effect,
                          60000 \div (2 * pm.bpm)),
             "bass", bass_pos(step))
    /\ IF step \in {0, 2} /\ is_chorus
       THEN gpc' = "sub" /\ UNCHANGED step
       ELSE Loop(4, "if_lead")
    /\ UNCHANGED <<pm, bar_num, num_steps, section_calls, pipeline, analyzer, observed>>

\* if beat in [0, 2] and is_chorus: the sub bass under the same note
GSub ==
    /\ At("sub")
    /\ bar' = overlay(bar, deep_bass(60000 * 12, 10), "sub", bass_pos(step),
                      step, bar.last.note_idx, bar.last.note)
    /\ IF step + 1 < 4
       THEN step' = step + 1 /\ gpc' = "bass"
       ELSE step' = 0 /\ gpc' = "if_lead"
    /\ UNCHANGED <<pm, bar_num, num_steps, raised, section_calls, pipeline,
                   analyzer, observed>>

\* if is_chorus and self.active_lead: num_steps = 8
GIfLead ==
    /\ At("if_lead")
    /\ Branch(is_chorus /\ IsSet(pm.active_lead), "lead", "if_melody")
    /\ UNCHANGED <<pm, bar_num, num_steps, bar, raised, section_calls,
                   pipeline, analyzer, observed>>

\* for step in range(8): if random.random() > 0.15: the brass lead
GLead ==
    /\ At("lead")
    /\ \E placed \in BOOLEAN :
          IF placed
          THEN Place(pm.active_lead, bar_num * 8 + step,
                     AudioEffects(brass_lead(240000 * 8, 8 * 10),
                                  pm.melody_effect, 60000 \div pm.bpm),
                     "lead", lead_pos(step))
          ELSE bar' = skipped(bar) /\ UNCHANGED raised
    /\ Loop(8, "if_melody")
    /\ UNCHANGED <<pm, bar_num, num_steps, section_calls, pipeline, analyzer, observed>>

\* if not is_chorus and self.active_melody and random.random() > 0.3:
\* num_steps = random.choice([8, 16])
GIfMelody ==
    /\ At("if_melody")
    /\ \E play \in BOOLEAN, n \in {8, 16} :
          /\ Branch(~is_chorus /\ IsSet(pm.active_melody) /\ play,
                    "melody", "if_pad")
          /\ num_steps' = IF ~is_chorus /\ IsSet(pm.active_melody) /\ play
                          THEN n ELSE 0
    /\ UNCHANGED <<pm, bar_num, bar, raised, section_calls, pipeline, analyzer, observed>>

\* voice = random.choice(['brass', 'xylo', 'acid', 'brass'])
melody_voice(voice) ==
    CASE voice = "brass" -> brass_lead(240000 * 7, num_steps * 10)
      [] voice = "xylo" -> xylophone(240000 * 5, num_steps * 10)
      [] OTHER -> acid_bass(240000 * 6, num_steps * 10)

\* for step in range(num_steps): if random.random() > 0.4: one melody note
GMelody ==
    /\ At("melody")
    /\ \E placed \in BOOLEAN, voice \in {"brass", "xylo", "acid"} :
          IF placed
          THEN Place(pm.active_melody, bar_num * num_steps + step,
                     AudioEffects(melody_voice(voice), pm.melody_effect,
                                  60000 \div pm.bpm),
                     "melody", melody_pos(step))
          ELSE bar' = skipped(bar) /\ UNCHANGED raised
    /\ Loop(num_steps, "if_pad")
    /\ UNCHANGED <<pm, bar_num, num_steps, section_calls, pipeline, analyzer, observed>>

\* self.active_pad['notes'][:4]
pad_notes == SubSeq(pm.active_pad.notes, 1, Min(4, Len(pm.active_pad.notes)))

\* if self.active_pad and bar_num % 2 == 0 (an empty slice is not looped over)
GIfPad ==
    /\ At("if_pad")
    /\ Branch(IsSet(pm.active_pad) /\ bar_num % 2 = 0 /\ Len(pad_notes) > 0,
              "pad", "if_arp")
    /\ UNCHANGED <<pm, bar_num, num_steps, bar, raised, section_calls,
                   pipeline, analyzer, observed>>

\* for i, pad_note in enumerate(pad_notes): bar.overlay(pad, position=0)
GPad ==
    /\ At("pad")
    /\ bar' = overlay(bar, creepy_pad(240000 * 2, 1), "pad", 0, step, step,
                      pad_notes[step + 1])
    /\ Loop(Len(pad_notes), "if_arp")
    /\ UNCHANGED <<pm, bar_num, num_steps, raised, section_calls, pipeline,
                   analyzer, observed>>

\* if self.active_arp and random.random() > 0.4
GIfArp ==
    /\ At("if_arp")
    /\ \E play \in BOOLEAN :
          Branch(IsSet(pm.active_arp) /\ play, "arp", "return")
    /\ UNCHANGED <<pm, bar_num, num_steps, bar, raised, section_calls,
                   pipeline, analyzer, observed>>

\* for sixteenth in range(16): if random.random() > 0.5: one xylophone note
GArp ==
    /\ At("arp")
    /\ \E placed \in BOOLEAN :
          IF placed
          THEN Place(pm.active_arp, bar_num * 16 + step,
                     xylophone(60000 * 15, 100), "arp", arp_pos(step))
          ELSE bar' = skipped(bar) /\ UNCHANGED raised
    /\ Loop(16, "return")
    /\ UNCHANGED <<pm, bar_num, num_steps, section_calls, pipeline, analyzer, observed>>

\* return bar
GReturn ==
    /\ At("return")
    /\ gpc' = "idle"
    /\ bar' = NoMix
    /\ bar_num' = -1
    /\ num_steps' = 0
    /\ UNCHANGED <<pm, step, raised, section_calls, pipeline, analyzer, observed>>

generate_bar ==
    \/ GIfDrums \/ GKick \/ GSnare \/ GHihat
    \/ GIfBass \/ GBass \/ GSub
    \/ GIfLead \/ GLead
    \/ GIfMelody \/ GMelody
    \/ GIfPad \/ GPad
    \/ GIfArp \/ GArp
    \/ GReturn

SequencerNext(maxBar, maxCalls) ==
    \/ \E change_bass \in BOOLEAN : SRandomize(change_bass)
    \/ SChangeSection(maxCalls)
    \/ \E b \in 0..maxBar : GStart(b)
    \/ generate_bar

\* Every tempo, the full library, many changes of section.
SequencerSpec ==
    /\ SequencerInit({FullLibrary}, BPMs)
    /\ [][SequencerNext(MaxShortBarNum, MaxSectionCalls)]_vars

\* The default tempo, bass patterns of several lengths, many bar numbers.
BassLineSpec ==
    /\ SequencerInit({BassLibrary}, {default_bpm})
    /\ [][SequencerNext(MaxBarNum, MaxShortCalls)]_vars

\* The default tempo, every library with some categories empty.
LibrarySpec ==
    /\ SequencerInit(Libraries, {default_bpm})
    /\ [][SequencerNext(MaxShortBarNum, MaxShortCalls)]_vars

\* The default tempo, the full library, the section set by the caller.
DrumNext ==
    \/ SequencerNext(MaxDrumBarNum, MaxShortCalls)
    \/ \E new_section \in SectionNames : SChangeSectionTo(new_section)

DrumSpec == SequencerInit({FullLibrary}, {default_bpm}) /\ [][DrumNext]_vars

\* ------------------------------- the producer loop with the whole PatternMixer
\* The changes of one iteration of _generate_audio_loop made on pm, the
\* mixer with all its fields: change_section(), the interval re-draws, and
\* randomize_patterns with the change_bass of the branch taken. The three
\* fields the pipeline follows are kept equal to those of pm.
LoopChanges ==
    LET sec_change ==
            bar_counter > 0 /\ bar_counter % section_change_interval = 0
        change_bass == bar_counter % bass_change_interval = 0
        pat_change ==
            bar_counter % pattern_change_interval = 0 /\ bar_counter > 0
        m == IF sec_change
             THEN [pm EXCEPT !.current_section = change_section(@)]
             ELSE pm
        outcomes == IF pat_change THEN randomize_patterns(m, change_bass)
                    ELSE IF change_bass THEN randomize_patterns(m, TRUE)
                    ELSE {[pm |-> m, raised |-> "none"]}
    IN  /\ section_change_interval' \in
               IF sec_change THEN SectionIntervals
               ELSE {section_change_interval}
        /\ bass_change_interval' \in
               IF change_bass /\ bar_counter > 0 THEN BassIntervals
               ELSE {bass_change_interval}
        /\ pattern_change_interval' \in
               IF pat_change THEN PatternIntervals
               ELSE {pattern_change_interval}
        /\ \E o \in outcomes : pm' = o.pm
        /\ current_section' = pm'.current_section
        /\ active_bass' = pm'.active_bass.source
        /\ bass_effect' = pm'.bass_effect
        /\ IF (pat_change \/ change_bass) /\ pm.patterns.melody # {}
           THEN /\ last_pattern_change' = bar_counter
                /\ pattern_gap' = IF last_pattern_change < 0 THEN pattern_gap
                                  ELSE bar_counter - last_pattern_change
           ELSE UNCHANGED rerolls

\* One pass through the try body up to the put, on the whole mixer.
LGenerate ==
    /\ ppc = "body"
    /\ At("idle")
    /\ LoopChanges
    /\ loop_bar' = normalize(generated_bar(bar_counter))
    /\ ppc' = "put"
    /\ AfterStop
    /\ UNCHANGED <<gpc, bar_num, step, num_steps, bar, raised, section_calls,
                   analyzer, exports>>
    /\ UNCHANGED <<bar_counter, audio_queue, stop_generation, consumer,
                   events_used, changes, num_dequeued, full_seen,
                   enq_after_stop, unsaved, exit_exports>>

\* initialize() re-rolls the patterns once and starts the thread; the loop
\* then runs against a consumer that only plays.
LoopNext ==
    \/ gpc = "new" /\ SRandomize(TRUE)
    \/ PCheck(MaxLoopBars) \/ LGenerate \/ PPut \/ PQueueFull
    \/ ConsumerQuiet

LoopSpec == SequencerInit({FullLibrary}, {default_bpm}) /\ [][LoopNext]_vars

\* ------------------------------------------- a MIDIPatternAnalyzer on its own
\* msg.note values a track is made of.
Pitches == {44, 45, 57, 72}

\* Ticks between two successive note_on messages: a chord, or one apart.
Spacings == {0, 1}

\* The notes list analyze_all_midis builds for one track: 'note' and the
\* running 'time' of every note_on.
Track(ps, spacing) ==
    [i \in 1..Len(ps) |-> [note |-> ps[i], time |-> (i - 1) * spacing]]

Tracks ==
    {Track(ps, sp) : ps \in UNION {[1..n -> Pitches] : n \in 0..MaxNotes},
                     sp \in Spacings}

RECURSIVE sum(_)
\* sum(n['note'] for n in notes)
sum(notes) ==
    IF notes = <<>> THEN 0 ELSE Head(notes).note + sum(Tail(notes))

\* max(n['note'] for n in notes) - min(n['note'] for n in notes)
note_range(notes) ==
    LET ns == {notes[i].note : i \in 1..Len(notes)}
    IN (CHOOSE x \in ns : \A y \in ns : y <= x)
       - (CHOOSE x \in ns : \A y \in ns : x <= y)

\* The pattern dict: 'notes' are the first 32 notes.
pattern_of(notes) ==
    [source |-> "track",
     notes |-> [i \in 1..Min(32, Len(notes)) |-> notes[i].note]]

\* The same tests with the density test in front of the bass test.
categorize_pattern_density_first(P, notes) ==
    LET n == Len(notes)
        last == notes[n].time
    IN  IF n = 0 THEN P
        ELSE IF n > 5 * (last + 1)
        THEN [P EXCEPT !.arpeggios = Append(@, pattern_of(notes))]
        ELSE IF sum(notes) < 45 * n
        THEN [P EXCEPT !.bass = Append(@, pattern_of(notes))]
        ELSE IF note_range(notes) < 12 /\ n < 2 * (last + 1)
        THEN [P EXCEPT !.pads = Append(@, pattern_of(notes))]
        ELSE [P EXCEPT !.melody = Append(@, pattern_of(notes))]

\* categorize_pattern: avg_note = sum / len, note_density = len / (last
\* time + 1); the comparisons are written without the divisions.
categorize_pattern(P, notes) ==
    LET n == Len(notes)
        last == notes[n].time
    IN  IF n = 0 THEN P
        ELSE IF sum(notes) < 45 * n
        THEN [P EXCEPT !.bass = Append(@, pattern_of(notes))]
        ELSE IF n > 5 * (last + 1)
        THEN [P EXCEPT !.arpeggios = Append(@, pattern_of(notes))]
        ELSE IF note_range(notes) < 12 /\ n < 2 * (last + 1)
        THEN [P EXCEPT !.pads = Append(@, pattern_of(notes))]
        ELSE IF sum(notes) > 60 * n
        THEN [P EXCEPT !.melody = Append(@, pattern_of(notes))]
        ELSE [P EXCEPT !.melody = Append(@, pattern_of(notes))]

\* A fresh analyzer and the notes parsed from one track.
AnalyzerInit ==
    /\ apc = "parsed"
    /\ track \in Tracks
    /\ patterns = EmptyPatterns
    /\ PipelineInit
    /\ bass_effect = "None"
    /\ pattern_change_interval = 8
    /\ bass_change_interval = 16
    /\ section_change_interval = 16
    /\ SequencerIdle

\* if notes: self.categorize_pattern(notes, ...)
Categorize ==
    /\ apc = "parsed"
    /\ patterns' = IF track # <<>> THEN categorize_pattern(patterns, track)
                   ELSE patterns
    /\ apc' = "done"
    /\ UNCHANGED <<track, pipeline, sequencer, observed>>

AnalyzerSpec == AnalyzerInit /\ [][Categorize]_vars

\* ------------------------------------------------------------------ claims
RunEnded == cpc \in {"done", "raised"}

\* C1: with current_section = 'intro', one no-argument change_section()
\* call sets current_section to 'verse'.
C1_IntroToVerse ==
    \A i \in 1..Len(section_history) :
        section_history[i].from = "intro" => section_history[i].to = "verse"

\* The order the sections are said to follow, starting at 'verse'.
ClaimedCycle == <<"verse", "chorus", "verse", "chorus", "breakdown", "chorus">>

FirstVerse ==
    CHOOSE f \in 1..(Len(section_history) + 1) :
        /\ f <= Len(section_history) => section_history[f].to = "verse"
        /\ \A j \in 1..(f - 1) : section_history[j].to # "verse"

\* C2: from 'verse' on, successive no-argument change_section() calls give
\* chorus, verse, chorus, breakdown, chorus, verse, ... in that six-step cycle.
C2_SixStepCycle ==
    \A i \in FirstVerse..Len(section_history) :
        section_history[i].to = ClaimedCycle[((i - FirstVerse) % 6) + 1]

\* C3: between two consecutive automatic section changes at least 16 and at
\* most 24 bars are enqueued.
C3_SectionGap == section_gap = -1 \/ section_gap \in 16..24

\* C4: two consecutive re-selections of the active bass pattern in the
\* producer loop are at least 16 and at most 32 bars apart.
C4_BassGap == bass_gap = -1 \/ bass_gap \in 16..32

\* C5: the queue never holds more than 8 bars: the producer is never more
\* than 8 completed bars ahead of the consumer.
C5_QueueBounded ==
    /\ Len(audio_queue) <= 8
    /\ bar_counter - num_dequeued <= 8

C5_Witness == Len(audio_queue) = 8 /\ bar_counter - num_dequeued = 8

\* C6: no bar is dropped or repeated: every bar produced is either still in
\* the queue or was dequeued, the queue holds consecutive bar_num values in
\* order, and the k-th bar the consumer dequeues has bar_num k - 1, whatever
\* queue-full retries and generation errors occurred.
C6_NoBarDropped ==
    /\ bar_counter = num_dequeued + Len(audio_queue)
    /\ \A i \in 1..Len(audio_queue) :
           audio_queue[i].bar_num = num_dequeued + i - 1
    /\ num_dequeued > 0 =>
           /\ audio_data.bar_num = num_dequeued - 1
           /\ self_bar_counter = num_dequeued - 1

\* The put was refused on a full queue, the consumer drained, and the bar
\* that could only be enqueued after that has been dequeued.
C6_Witness == full_seen /\ audio_data.bar_num = 8 /\ num_dequeued = 9

\* C7: once stop_generation is set the producer finishes at most its current
\* iteration: it enqueues at most one further bar, takes at most the three
\* steps that remain of an iteration (body, put, loop test) and is never
\* blocked before it has left the loop, a full undrained queue included.
C7_StopEndsProducer ==
    stop_generation =>
        /\ enq_after_stop <= 1
        /\ steps_after_stop <= 3
        /\ ppc # "done" => ENABLED ProducerNext(MaxPipelineBars)

\* The stop arrived mid-iteration with the queue full and nobody draining:
\* the put timed out and the loop test ended the producer.
C7_Witness ==
    /\ ppc = "done"
    /\ steps_after_stop = 3
    /\ enq_after_stop = 0
    /\ Len(audio_queue) = 8

\* C8: when the consumer's main loop has been left, the accumulator was
\* flushed exactly once: never twice, and never zero times while recorded
\* audio is still pending in it.
C8_FlushedOnceOnExit == RunEnded => (exit_exports <= 1 /\ unsaved = 0)

\* C9: after a failed write to the audio device the run still ends with
\* stop_recording having run and nothing pending in the accumulator.
C9_WriteFailureStillFlushes == cpc = "raised" => (~is_recording /\ unsaved = 0)

\* C10: the section drawn while a bar plays is the section tag of that
\* dequeued bar.
C10_DisplayedSectionIsBarTag ==
    (cpc = "play" /\ chunk >= 1) => displayed_section = audio_data.section

\* A step of the generation thread.
ProducerStep == ppc' # ppc

\* C11: the recording accumulator and the bar and section values shown in
\* the UI are written by the consumer only: no step of the producer thread
\* changes audio_buffer, self.bar_counter or the section draw_ui shows.
C11_ConsumerOnlyWriter ==
    [][ProducerStep => /\ audio_buffer' = audio_buffer
                       /\ self_bar_counter' = self_bar_counter
                       /\ draw_ui' = draw_ui]_vars

\* C12: once the generation thread runs, every write to the PatternMixer
\* state is a step of that thread: no step of the main thread (start-up
\* buffering, dequeueing, event handlers, redraws, clean-up) changes it.
C12_MixerOwnedByProducer == [][~ProducerStep => UNCHANGED mixer]_vars

\* The producer has re-selected the bass at bar 0 and the main thread has
\* gone through an input event and its whole clean-up.
C12_Witness == last_bass_change = 0 /\ cpc = "done" /\ events_used = 1

\* C20: every bar in the queue, and every bar taken from it, was generated
\* with all its layers for its own bar number and then normalized exactly
\* once before the put; a bar waiting at the put is in the same condition.
C20_NormalizedOnceBeforePut ==
    /\ \A i \in 1..Len(audio_queue) :
           /\ audio_queue[i].bar.complete
           /\ audio_queue[i].bar.normalized = 1
           /\ audio_queue[i].bar.bar_num = audio_queue[i].bar_num
    /\ num_dequeued > 0 =>
           audio_data.bar.complete /\ audio_data.bar.normalized = 1
    /\ ppc = "put" =>
           /\ loop_bar.complete /\ loop_bar.normalized = 1
           /\ loop_bar.bar_num = bar_counter

\* A put was refused on the full queue, the iteration ran again, and the bar
\* of that second pass is the newest one in the queue.
C20_Witness ==
    /\ full_seen
    /\ Len(audio_queue) > 0
    /\ audio_queue[Len(audio_queue)].bar_num = 8
    /\ audio_queue[Len(audio_queue)].bar.normalized = 1

\* A bar is under construction.
InBar == gpc \notin {"new", "idle"}

\* round(60000 / BPM * 4)
RoundedBarLength == (2 * 240000 + pm.bpm) \div (2 * pm.bpm)

\* C13: at every tempo a bar generate_bar is building is exactly
\* round(60000 / BPM * 4) ms long.
C13_BarLengthRounded == InBar => bar.length = RoundedBarLength

\* C14: every clip generate_bar overlays starts at a position p with
\* 0 <= p < bar length, what is placed of it ends inside the bar, and the
\* bar keeps the length of the initial silent bar through every overlay.
C14_OverlaysInsideBar ==
    InBar =>
        /\ bar.length = int_bar_duration
        /\ bar.last.voice # "none" =>
              /\ 0 <= bar.last.position
              /\ bar.last.position < bar.length
              /\ bar.last.position + bar.last.length <= bar.length
              /\ bar.last.length <= bar.last.clip.duration

\* A pad of two bars' length laid at 0 and cut to the length of the bar.
C14_Witness ==
    /\ bar.last.voice = "pad"
    /\ bar.last.length = bar.length
    /\ bar.last.length < bar.last.clip.duration

\* C15: in bar b the bass note of beat k is notes[(b*4 + k + offset) mod L]
\* with offset = (b div 4) mod 4, the index lies in 0..L-1, and with the
\* pattern [36, 38, 41, 43] bars 0 and 1 both play indices 0, 1, 2, 3.
C15_BassNoteIndex ==
    bar.last.voice = "bass" =>
        LET notes == pm.active_bass.notes
            L == Len(notes)
            b == bar_num
            k == bar.last.step
            claimed == (b * 4 + k + ((b \div 4) % 4)) % L
        IN  /\ k \in 0..3
            /\ claimed \in 0..(L - 1)
            /\ bar.last.note_idx = claimed
            /\ bar.last.note = notes[claimed + 1]
            /\ (notes = <<36, 38, 41, 43>> /\ b \in {0, 1}) =>
                   bar.last.note_idx = k

\* Bar 7 (offset 1), beat 3, a pattern of three notes: index 32 mod 3.
C15_Witness ==
    /\ bar.last.voice = "bass"
    /\ bar_num = 7
    /\ bar.last.step = 3
    /\ Len(pm.active_bass.notes) = 3
    /\ bar.last.note_idx = 2

\* The active pattern of each category of the library.
Active ==
    [bass |-> {pm.active_bass}, melody |-> {pm.active_melody, pm.active_lead},
     pads |-> {pm.active_pad}, arpeggios |-> {pm.active_arp}]

\* The category whose pattern each block of generate_bar plays.
PlayedBy ==
    [bass |-> pm.active_bass, sub |-> pm.active_bass, lead |-> pm.active_lead,
     melody |-> pm.active_melody, pad |-> pm.active_pad, arp |-> pm.active_arp]

\* C16: whichever categories of the library are empty, nothing is raised:
\* randomize_patterns never chooses from an empty list (an empty category
\* keeps None, a set pattern comes from its category), and generate_bar
\* enters a block and places a layer only for a set pattern with notes.
C16_EmptyCategoriesSkipped ==
    /\ raised = "none"
    /\ \A c \in DOMAIN Active :
           \A p \in Active[c] : IsSet(p) => p \in pm.patterns[c]
    /\ gpc # "new" =>
           \A c \in DOMAIN Active :
               \A p \in Active[c] : IsSet(p) <=> pm.patterns[c] # {}
    /\ \A v \in DOMAIN PlayedBy :
           (gpc = v \/ bar.last.voice = v) =>
               IsSet(PlayedBy[v]) /\ Len(PlayedBy[v].notes) > 0

\* Only pads and arpeggios in the library: a chorus bar was built to its end
\* without bass, lead or melody, the last layer being an arpeggio note.
C16_Witness ==
    /\ gpc = "return"
    /\ pm.patterns.bass = {} /\ pm.patterns.melody = {}
    /\ is_chorus
    /\ bar.last.voice = "arp"

\* The category the rule in words gives a non-empty note list.
ClaimedCategory(notes) ==
    LET n == Len(notes)
        ticks == notes[n].time + 1
    IN  IF sum(notes) < 45 * n THEN "bass"
        ELSE IF n > 5 * ticks THEN "arpeggios"
        ELSE IF note_range(notes) < 12 /\ n < 2 * ticks THEN "pads"
        ELSE "melody"

\* C17: categorize_pattern puts a non-empty note list into exactly one
\* category, the one of the first matching rule (average < 45: bass;
\* density > 5: arpeggios; range < 12 and density < 2: pads; else melody);
\* all notes < 45 gives bass, range < 12 with density < 2 and average >= 45
\* gives pads, and percussion stays empty.
C17_OneCategoryByRule ==
    (apc = "done" /\ track # <<>>) =>
        LET n == Len(track)
            ticks == track[n].time + 1
            c == ClaimedCategory(track)
        IN  /\ patterns[c] = <<pattern_of(track)>>
            /\ \A o \in DOMAIN patterns : o # c => patterns[o] = <<>>
            /\ patterns.percussion = <<>>
            /\ (\A i \in 1..n : track[i].note < 45) =>
                   patterns.bass = <<pattern_of(track)>>
            /\ (/\ note_range(track) < 12
                /\ n < 2 * ticks
                /\ sum(track) >= 45 * n) =>
                   patterns.pads = <<pattern_of(track)>>

\* Three notes a tick apart within an octave, average 45 or more: a pad.
C17_Witness ==
    /\ apc = "done"
    /\ Len(track) = 3
    /\ Len(patterns.pads) = 1

\* The voices of the Synthesizer.
InstrumentVoices ==
    {"deep_bass", "creepy_pad", "brass_lead", "xylophone", "acid_bass"}

\* C18: of every clip an instrument voice renders for generate_bar, the
\* fade-in ramp and the fade-out ramp are each at most half the clip long.
C18_RampsWithinHalf ==
    bar.last.clip.synth \in InstrumentVoices =>
        /\ 2 * bar.last.clip.fade_in <= bar.last.clip.duration
        /\ 2 * bar.last.clip.fade_out <= bar.last.clip.duration

\* C19: once change_section() has been called without argument, the mixer's
\* section is never 'intro' again and no bar is generated under 'intro',
\* however many such calls follow.
C19_IntroNeverReentered ==
    section_calls > 0 =>
        /\ pm.current_section # "intro"
        /\ bar.section # "intro"

\* A bar built to its end after the third change of section.
C19_Witness ==
    /\ section_calls >= 3
    /\ gpc = "return"
    /\ bar.section = pm.current_section

\* The pass of the loop body that takes the elif change_bass branch: the
\* bass interval divides bar_counter, the pattern interval does not.
BassOnlyChange ==
    /\ ppc = "body" /\ ppc' = "put"
    /\ bar_counter > 0
    /\ bar_counter % bass_change_interval = 0
    /\ bar_counter % pattern_change_interval # 0

\* C21: a bass-only change of the producer loop leaves active_melody,
\* active_lead, active_pad, active_arp and melody_effect as they were.
C21_BassOnlyKeepsMelodic ==
    [][BassOnlyChange => /\ pm'.active_melody = pm.active_melody
                         /\ pm'.active_lead = pm.active_lead
                         /\ pm'.active_pad = pm.active_pad
                         /\ pm'.active_arp = pm.active_arp
                         /\ pm'.melody_effect = pm.melody_effect]_vars

\* C22: two consecutive re-selections of the melodic patterns in the
\* producer loop are at least 8 and at most 12 bars apart.
C22_PatternGap == pattern_gap = -1 \/ pattern_gap \in 8..12

\* The loop body runs again for a bar index whose put was refused: the bar
\* of the earlier pass is still the one in hand.
RetryPass == ppc = "body" /\ ppc' = "put" /\ loop_bar.bar_num = bar_counter

\* C24: a pass of the loop that retries bar index n after a failed enqueue
\* leaves the section, the active patterns and the effects as the first
\* pass for n left them.
C24_RetryKeepsMusicalState == [][RetryPass => pm' = pm]_vars

\* int(beat * self.beat_duration) for the beat with index k.
Beat(k) == (k * 60000) \div pm.bpm

\* The bar in hand is a breakdown bar whose drums are dropped.
DrumsDropped == bar.section = "breakdown" /\ bar_num % 4 < 2

\* C23: once the drum block of a bar is over the bar holds a kick on each
\* of its four beats and a snare on beats 2 and 4, unless the section is
\* 'breakdown' and bar_num mod 4 < 2: then it holds no kick and no snare and
\* no kick, snare or hi-hat is ever laid on it. A lead note is laid only on
\* a chorus bar and a melody note only on a bar of another section.
C23_DrumsAndLeadBySection ==
    /\ (InBar /\ gpc \notin {"if_drums", "kick", "snare"}) =>
           bar.drums =
               IF DrumsDropped THEN {}
               ELSE {[voice |-> "kick", position |-> Beat(k)] : k \in 0..3}
                    \cup {[voice |-> "snare", position |-> Beat(k)] :
                             k \in {1, 3}}
    /\ DrumsDropped =>
           /\ gpc \notin {"kick", "snare", "hihat"}
           /\ bar.last.voice \notin {"kick", "snare", "hihat"}
    /\ (gpc = "lead" \/ bar.last.voice = "lead") => bar.section = "chorus"
    /\ (gpc = "melody" \/ bar.last.voice = "melody") => bar.section # "chorus"
    /\ InBar => bar.section = pm.current_section

\* A breakdown bar with bar_num mod 4 = 1 built to its end without drums,
\* its last layer a melody note.
C23_Witness ==
    /\ gpc = "if_pad"
    /\ bar.section = "breakdown"
    /\ bar_num = 1
    /\ bar.drums = {}
    /\ bar.last.voice = "melody"
\* C25: a run of automatic section changes enters each of verse, chorus and
\* breakdown: once six of them have been made (one turn of the cycle), all
\* three sections have been entered.
C25_EverySectionEntered ==
    Len(section_history) >= 6 =>
        \A s \in {"verse", "chorus", "breakdown"} :
            \E i \in 1..Len(section_history) : section_history[i].to = s
\* C26: with both threads scheduled fairly, the consumer dequeuing and no
\* stop signal, every bar index n is eventually enqueued with bar_num = n
\* and eventually dequeued.
C26_EveryBarDelivered ==
    \A n \in 0..(MaxPipelineBars - 1) :
        /\ <>(\E i \in 1..Len(audio_queue) : audio_queue[i].bar_num = n)
        /\ <>(audio_data.bar_num = n)

\* The producer ran into the full queue and retried, and the consumer has
\* dequeued every bar of the run.
C26_Witness ==
    /\ full_seen
    /\ num_dequeued = MaxPipelineBars
    /\ audio_data.bar_num = MaxPipelineBars - 1
\* The exported files that hold bar n.
FilesWith(n) ==
    {i \in 1..Len(files) : \E j \in 1..Len(files[i]) : files[i][j] = n}

\* C27: no bar is ever in two exported files, a file and the accumulator
\* hold only bars dequeued while recording was on, and when the run has
\* ended every bar dequeued while recording was on is in exactly one file.
C27_RecordedBarsExportedOnce ==
    /\ \A n \in recorded : Cardinality(FilesWith(n)) <= 1
    /\ \A i \in 1..Len(files) :
           \A j \in 1..Len(files[i]) : files[i][j] \in recorded
    /\ \A j \in 1..Len(audio_buffer) : audio_buffer[j] \in recorded
    /\ RunEnded => \A n \in recorded : Cardinality(FilesWith(n)) = 1
\* A pass of one of the three event loops of run() that takes an ESC key
\* press off the pygame event queue.
EscapeTaken == CBuffering("ESCAPE") \/ CEmpty("ESCAPE") \/ CQuit("ESCAPE")

\* C28: in whichever consumer state the ESC key press is taken (buffering
\* wait, chunk playback, empty queue), it clears running, which ends the
\* main loop at its next test.
C28_EscapeEndsLoop == [][EscapeTaken => ~running']_vars
\* C29: the step that dequeues the first bar finds at least 3 bars in the
\* queue, and it comes after the buffering wait has seen that many. Once a
\* quit event has cleared running during the buffering wait, the consumer's
\* next step goes to the clean-up and no bar is dequeued or played: the
\* queue is left as the producer fills it.
C29_BufferedBeforeFirstGet ==
    [][/\ (num_dequeued = 0 /\ num_dequeued' = 1) =>
              (cpc = "get" /\ Len(audio_queue) >= 3)
       /\ (cpc = "buffering" /\ cpc' = "get") =>
              (running /\ Len(audio_queue) >= 3)
       /\ (cpc = "buffering" /\ ~running /\ cpc' # cpc) => cpc' = "cleanup"
       /\ (~running /\ num_dequeued = 0) =>
              /\ num_dequeued' = 0
              /\ cpc' \in {"buffering", "cleanup", "join", "done"}
              /\ chunk' = 0 /\ audio_data' = NoBar
              /\ Len(audio_queue') >= Len(audio_queue)]_vars

\* QUIT came during the buffering wait with one bar queued; the run went
\* through the clean-up without a bar being dequeued.
C29_Witness ==
    /\ cpc = "done"
    /\ ~running
    /\ num_dequeued = 0
    /\ audio_data = NoBar
    /\ Len(audio_queue) >= 1
\* C30: of every clip generate_bar passes to AudioEffects.delay (the bass
\* with delay_ms = half a beat, lead and melody with one beat) delay_ms is
\* less than the clip's length, so the delayed copy starts inside the clip.
C30_DelayInsideClip ==
    bar.last.clip.effect = "delay" =>
        bar.last.clip.delay_ms < bar.last.clip.duration
====
